---- MODULE Spec2Model ----
(***************************************************************************)
(* The sales-qualification dialogue of src/bot: the in-memory session      *)
(* store (dialog_states), the command and message handlers of handlers.py  *)
(* cut at their await points, the LLM client of llm_client.py and the CSV  *)
(* lead store of lead_store.py.                                            *)
(*                                                                         *)
(* A text is a sequence of one-character strings.  The Russian literals    *)
(* of the source are written in Latin transliteration ("da" for the        *)
(* affirmative, "net" for the negative token, and so on): the module       *)
(* language has ASCII strings only.                                        *)
(*                                                                         *)
(* Every handler is a coroutine: it runs without interruption from one     *)
(* await to the next.  The only awaits that yield to the event loop are    *)
(* the reply sends (message.answer); LLMClient.ask_question is awaited but *)
(* contains no await itself (its HTTP call is synchronous), so it does     *)
(* not yield.  A handler in flight is therefore recorded by the line of    *)
(* the message.answer it is suspended at.                                  *)
(***************************************************************************)
EXTENDS Naturals, Sequences, FiniteSets, Bags, TLC

(* ----------------------------- bounds ---------------------------------- *)

\* Handlers of one chat that may be suspended at an await at the same time.
MaxInFlight == 2

\* The chat identities of the model (the spec's scenario uses identity 42).
Chats == {42}

(* ------------------------------ texts ---------------------------------- *)

EmptyMap == [x \in {} |-> x]

Put(m, k, v) == [x \in (DOMAIN m) \cup {k} |-> IF x = k THEN v ELSE m[x]]

Whitespace == {" "}

\* str.lower() on the characters the model's texts are made of.
LowerChar(ch) ==
    CASE ch = "D" -> "d"
      [] ch = "N" -> "n"
      [] ch = "P" -> "p"
      [] OTHER -> ch

lower(t) == [i \in 1..Len(t) |-> LowerChar(t[i])]

RECURSIVE lstrip(_)
lstrip(t) == IF t # <<>> /\ Head(t) \in Whitespace THEN lstrip(Tail(t)) ELSE t

RECURSIVE rstrip(_)
rstrip(t) ==
    IF t # <<>> /\ t[Len(t)] \in Whitespace
    THEN rstrip(SubSeq(t, 1, Len(t) - 1))
    ELSE t

\* str.strip()
strip(t) == rstrip(lstrip(t))

\* handlers.py:357  ['да', 'да, оставлю контакт', 'да, оставлю']
AFFIRMATIVE ==
    { <<"d","a">>,
      <<"d","a",","," ","o","s","t","a","v","l","y","u"," ",
        "k","o","n","t","a","k","t">>,
      <<"d","a",","," ","o","s","t","a","v","l","y","u">> }

\* handlers.py:368  ['нет', 'пока не готов', 'не готов']
NEGATIVE ==
    { <<"n","e","t">>,
      <<"p","o","k","a"," ","n","e"," ","g","o","t","o","v">>,
      <<"n","e"," ","g","o","t","o","v">> }

\* The inbound message texts of the model: an empty text, a blank one, a
\* capitalised negative token with surrounding blanks, a capitalised
\* affirmative token, and a free text that contains the affirmative token
\* without being one ("sajt da").
TxtEmpty == <<>>
TxtBlank == <<" ", " ">>
TxtNet   == <<" ", "N", "e", "t", " ">>
TxtDa    == <<"D", "a">>
TxtFree  == <<"s", "a", "j", "t", " ", "d", "a">>

Texts == {TxtEmpty, TxtBlank, TxtNet, TxtDa, TxtFree}

(* --------------------------- session store ----------------------------- *)

QuestionKeys == <<"intent", "budget", "timeline", "priority">>

AnswerKeys == {"intent", "budget", "timeline", "priority", "contact"}

Stages == {"greeting", "qualifying", "offering", "collecting_contact", "done"}

\* The dict literal of handlers.py:24-29, 123-128 and 163-168.  started_at
\* is a wall-clock stamp that no code reads; it is left out.
FreshSession ==
    [stage |-> "greeting", answers |-> EmptyMap, last_llm_suggestion |-> <<>>]

\* A get_dialog_state whose new session starts at qualifying; C9_FreshSession
\* tells it from get_dialog_state.
get_dialog_state_qualifying(ds, chat_id) ==
    IF chat_id \notin DOMAIN ds
    THEN Put(ds, chat_id, [FreshSession EXCEPT !.stage = "qualifying"])
    ELSE ds

\* A get_dialog_state that starts the session of a new chat from the session
\* of a chat it already holds (one dict object given to every chat).
\* C12_ChatIsolation tells it from get_dialog_state.
get_dialog_state_shared(ds, chat_id) ==
    IF chat_id \notin DOMAIN ds
    THEN IF DOMAIN ds = {}
         THEN Put(ds, chat_id, FreshSession)
         ELSE Put(ds, chat_id, ds[CHOOSE k \in DOMAIN ds : TRUE])
    ELSE ds

get_dialog_state(ds, chat_id) ==
    IF chat_id \notin DOMAIN ds THEN Put(ds, chat_id, FreshSession) ELSE ds

\* An is_returning_user that finds nobody returning; C7_StartResumes tells
\* it from is_returning_user.
is_returning_user_never(ds, chat_id) == FALSE

is_returning_user(ds, chat_id) ==
    IF chat_id \notin DOMAIN ds
    THEN FALSE
    ELSE ds[chat_id].stage \notin {"done", "greeting"}

\* An update_dialog_stage that writes a stage name of its own.
\* C16_StageAndKeys tells it from update_dialog_stage.
update_dialog_stage_renamed(ds, chat_id, stage) ==
    [get_dialog_state(ds, chat_id) EXCEPT
        ![chat_id].stage = IF stage = "collecting_contact"
                           THEN "contact" ELSE stage]

update_dialog_stage(ds, chat_id, stage) ==
    [get_dialog_state(ds, chat_id) EXCEPT ![chat_id].stage = stage]

save_answer(ds, chat_id, question, answer) ==
    [get_dialog_state(ds, chat_id) EXCEPT
        ![chat_id].answers = Put(@, question, answer)]

(* ----------------------------- LLM client ------------------------------ *)

\* prompt.py is not among the source files; FALLBACK_MESSAGE is its fixed
\* fallback text (imported at llm_client.py:82,87 and handlers.py:194,348).
FALLBACK_MESSAGE == <<"FALLBACK_MESSAGE">>

\* llm_client.py:79  "Извините, не удалось получить ответ."
NoAnswerText == <<"Izvinite, ne udalos poluchit otvet.">>

\* The text of a completion that carries one.
RecText == <<"rec">>

\* What self.client.chat.completions.create does (llm_client.py:66-74):
\* it raises (transport error, timeout), or returns a response with no
\* choices, or one whose first choice has content None, "" or a text.
Completions == {"raise", "no_choices", "content_none", "content_empty", "content"}

\* What openai.OpenAI(...) does at llm_client.py:32-51: it builds the client
\* (directly or through the httpx fallback), or an exception leaves __init__.
Constructions == {"ok", "raise"}

\* LLMClient.__init__: [raised, client].
LLMClient_init(environ, ctor) ==
    IF ~environ.LLM_BASE_URL \/ ~environ.LLM_API_KEY
    THEN [raised |-> TRUE, client |-> "None"]
    ELSE IF ctor = "raise"
         THEN [raised |-> TRUE, client |-> "None"]
         ELSE [raised |-> FALSE, client |-> "LLMClient"]

\* get_llm_client: [raised, client], client being the new value of the
\* module-level _llm_client.
get_llm_client(client, environ, ctor) ==
    IF client = "None"
    THEN LLMClient_init(environ, ctor)
    ELSE [raised |-> FALSE, client |-> client]

\* A mutant of ask_question: the except clause re-raises.
ask_question_reraise(completion) ==
    CASE completion = "raise" -> [calls |-> 1, raised |-> TRUE, text |-> <<>>]
      [] completion = "no_choices" -> [calls |-> 1, raised |-> FALSE,
            text |-> FALLBACK_MESSAGE]
      [] completion = "content_none" -> [calls |-> 1, raised |-> TRUE, text |-> <<>>]
      [] completion = "content_empty" -> [calls |-> 1, raised |-> FALSE,
            text |-> NoAnswerText]
      [] OTHER -> [calls |-> 1, raised |-> FALSE, text |-> RecText]

\* An ask_question that makes the completion call a second time when the
\* first one raised.  C21_NoRetry tells it from ask_question.
ask_question_retry(completion) ==
    CASE completion = "raise" -> [calls |-> 2, raised |-> FALSE,
            text |-> FALLBACK_MESSAGE]
      [] completion = "no_choices" -> [calls |-> 1, raised |-> FALSE,
            text |-> FALLBACK_MESSAGE]
      [] completion = "content_none" -> [calls |-> 1, raised |-> FALSE,
            text |-> FALLBACK_MESSAGE]
      [] completion = "content_empty" -> [calls |-> 1, raised |-> FALSE,
            text |-> NoAnswerText]
      [] OTHER -> [calls |-> 1, raised |-> FALSE, text |-> RecText]

\* LLMClient.ask_question: [calls, raised, text], calls being the number of
\* completion calls it makes (the one of lines 66-74).  With content None,
\* len(answer) at line 78 raises TypeError inside the try; the except clause
\* of line 85 turns every exception into the fallback text.
ask_question(completion) ==
    CASE completion = "raise" -> [calls |-> 1, raised |-> FALSE,
            text |-> FALLBACK_MESSAGE]
      [] completion = "no_choices" -> [calls |-> 1, raised |-> FALSE,
            text |-> FALLBACK_MESSAGE]
      [] completion = "content_none" -> [calls |-> 1, raised |-> FALSE,
            text |-> FALLBACK_MESSAGE]
      [] completion = "content_empty" -> [calls |-> 1, raised |-> FALSE,
            text |-> NoAnswerText]
      [] OTHER -> [calls |-> 1, raised |-> FALSE, text |-> RecText]

(* ----------------------------- lead store ------------------------------ *)

\* lead_store.py:23-32
fieldnames ==
    <<"timestamp", "chat_id", "client_name", "contact", "intent", "notes",
      "source", "status">>

\* The row writer.writeheader() writes.
HeaderRow == [header |-> TRUE, fields |-> fieldnames]

\* The outcome of opening and writing the CSV file.
FileOps == {"ok", "raise"}

NoFile == [exists |-> FALSE, rows |-> <<>>]

\* The outcome of creating the CSV file at lines 42-44: besides the two of
\* FileOps, open(..., 'w') creates the file and writing or closing it raises
\* (a full disk), which leaves an empty file behind.  To a handler this is
\* the exception of "raise"; the Lead Sink specification draws it.
CreateOps == FileOps \cup {"partial"}

\* LeadStore._ensure_csv_exists: [raised, csv].
ensure_csv_exists(csv, io) ==
    IF ~csv.exists
    THEN CASE io = "raise" -> [raised |-> TRUE, csv |-> csv]
           [] io = "partial" ->
                [raised |-> TRUE, csv |-> [exists |-> TRUE, rows |-> <<>>]]
           [] OTHER ->
                [raised |-> FALSE,
                 csv |-> [exists |-> TRUE, rows |-> <<HeaderRow>>]]
    ELSE [raised |-> FALSE, csv |-> csv]

\* get_lead_store: [raised, store, csv]; LeadStore.__init__ runs
\* _ensure_csv_exists, and an exception leaves _lead_store None.
get_lead_store(store, csv, io) ==
    IF store = "None"
    THEN LET e == ensure_csv_exists(csv, io)
         IN  IF e.raised
             THEN [raised |-> TRUE, store |-> "None", csv |-> e.csv]
             ELSE [raised |-> FALSE, store |-> "LeadStore", csv |-> e.csv]
    ELSE [raised |-> FALSE, store |-> store, csv |-> csv]

\* The row of lead_data (the timestamp is a wall-clock stamp, left out).
LeadRow(chat_id, contact, intent, notes, client_name, status) ==
    [header |-> FALSE,
     fields |-> [chat_id |-> chat_id, client_name |-> client_name,
                 contact |-> contact, intent |-> intent, notes |-> notes,
                 source |-> "telegram", status |-> status]]

\* LeadStore.save_lead: [raised, success, csv].  open(..., 'a') creates a
\* missing file; the try of line 72 spans the whole body and every exception
\* is turned into False.
save_lead(csv, io, chat_id, contact, intent, notes, client_name, status) ==
    IF io = "raise"
    THEN [raised |-> FALSE, success |-> FALSE, csv |-> csv]
    ELSE [raised |-> FALSE, success |-> TRUE,
          csv |-> [exists |-> TRUE,
                   rows |-> Append(csv.rows,
                                   LeadRow(chat_id, contact, intent, notes,
                                           client_name, status))]]

Get(m, k, default) == IF k \in DOMAIN m THEN m[k] ELSE default

\* lead_store.py:128  f"Бюджет: {budget}, Сроки: {timeline}, Приоритет: {priority}"
SummaryNotes(budget, timeline, priority) ==
    <<"Budget: ">> \o budget \o <<", Sroki: ">> \o timeline
        \o <<", Prioritet: ">> \o priority

\* A save_lead_from_dialog that takes the recommendation out of the session
\* it saves from.  C19_NotesDerivation tells it from save_lead_from_dialog.
save_lead_from_dialog_consume(csv, io, chat_id, dialog_state, contact, client_name) ==
    LET answers == dialog_state.answers
        saved == save_lead(csv, io, chat_id, contact,
                           Get(answers, "intent", <<"Ne ukazano">>),
                           dialog_state.last_llm_suggestion, client_name, "new")
    IN  [raised |-> saved.raised, success |-> saved.success, csv |-> saved.csv,
         dialog_state |-> [dialog_state EXCEPT !.last_llm_suggestion = <<>>]]

\* LeadStore.save_lead_from_dialog: [raised, success, csv, dialog_state],
\* dialog_state being the dict it was passed as the call leaves it (lines
\* 117-128 only read it with get).
save_lead_from_dialog(csv, io, chat_id, dialog_state, contact, client_name) ==
    LET answers == dialog_state.answers
        intent == Get(answers, "intent", <<"Ne ukazano">>)
        suggestion == dialog_state.last_llm_suggestion
        notes == IF suggestion = <<>>
                 THEN SummaryNotes(Get(answers, "budget", <<"ne ukazan">>),
                                   Get(answers, "timeline", <<"ne ukazany">>),
                                   Get(answers, "priority", <<"ne ukazany">>))
                 ELSE suggestion
        saved == save_lead(csv, io, chat_id, contact, intent, notes,
                           client_name, "new")
    IN  [raised |-> saved.raised, success |-> saved.success, csv |-> saved.csv,
         dialog_state |-> dialog_state]

(* ------------------------------- state --------------------------------- *)

VARIABLES
    dialog_states,  \* handlers.py:15  chat id -> session, a dict
    inflight,       \* chat id -> bag of the handlers suspended at an await
    environ,        \* which of LLM_BASE_URL, LLM_API_KEY the environment sets
    llm_client,     \* llm_client.py:92  _llm_client
    lead_store,     \* lead_store.py:165  _lead_store
    csv_file,       \* the file leads.csv: whether it exists, and its rows
    submitted       \* history: chat id -> the texts the current session was
                    \* sent as freeform messages while in stage qualifying

vars ==
    <<dialog_states, inflight, environ, llm_client, lead_store, csv_file,
      submitted>>

\* The mutable program state a handler segment reads and writes.
World ==
    [ds |-> dialog_states, client |-> llm_client, store |-> lead_store,
     csv |-> csv_file]

\* What the outside world does during one handler segment: the OpenAI
\* constructor, the completion call, creating the CSV file, appending to it.
AllOutcomes ==
    [ctor : Constructions, completion : Completions,
     create : FileOps, append : FileOps]

StageOf(ds, c) == IF c \in DOMAIN ds THEN ds[c].stage ELSE "none"

AnswersOf(ds, c) == IF c \in DOMAIN ds THEN ds[c].answers ELSE EmptyMap

\* A message without text (a photo, a sticker): message.text is None.
NoText == <<"None">>

\* The result of a handler segment: the new world, where the handler is now
\* (the line of the await it is suspended at, or "returned" / "raised"), the
\* reply it is sending there, what it asked of the Gateway and the Sink, the
\* call sites it was reached through, and how many completion calls (asks)
\* and appends to the CSV file (appends) it made, and the text of the reply
\* when that is built from what ask_question returned (body; <<>> for the
\* fixed texts).
Seg(W, pc, reply, llm, sink) ==
    [ds |-> W.ds, client |-> W.client, store |-> W.store, csv |-> W.csv,
     pc |-> pc, reply |-> reply, llm |-> llm, sink |-> sink, via |-> <<>>,
     asks |-> 0, appends |-> 0, body |-> <<>>]

\* The segment s, having made n completion calls.
Asked(n, s) == [s EXCEPT !.asks = n]

\* The segment s, having tried n appends to the CSV file.
Appended(n, s) == [s EXCEPT !.appends = n]

\* The segment s, its reply having the text body.
Saying(body, s) == [s EXCEPT !.body = body]

\* The segment s of a handler that was called at line site of another one:
\* via is the stack of the call sites below the handler's own frame.
Called(site, s) == [s EXCEPT !.via = <<site>> \o @]

Ended == {"returned", "raised"}

(* ------------------------------ handlers ------------------------------- *)

\* A handle_start that greets without replacing the session;
\* C8_DoneRestarts tells it from handle_start.
handle_start_keep(W, chat_id) ==
    IF is_returning_user(W.ds, chat_id)
    THEN Seg([W EXCEPT !.ds = get_dialog_state(W.ds, chat_id)],
             "start_94", "welcome_back", "none", "none")
    ELSE Seg([W EXCEPT !.ds = get_dialog_state(W.ds, chat_id)],
             "start_146", "welcome", "none", "none")

\* handle_start up to its first await.
handle_start(W, chat_id) ==
    IF is_returning_user(W.ds, chat_id)
    THEN Seg([W EXCEPT !.ds = get_dialog_state(W.ds, chat_id)],
             "start_94", "welcome_back", "none", "none")
    ELSE Seg([W EXCEPT !.ds = Put(W.ds, chat_id, FreshSession)],
             "start_146", "welcome", "none", "none")

\* A handle_reset that keeps the answers of the session it replaces;
\* C3_ResetFresh tells it from handle_reset.
handle_reset_keep(W, chat_id) ==
    Seg([W EXCEPT !.ds = Put(W.ds, chat_id,
                             [FreshSession EXCEPT
                                 !.answers = AnswersOf(W.ds, chat_id)])],
        "reset_171", "reset_done", "none", "none")

\* handle_reset up to its await.
handle_reset(W, chat_id) ==
    Seg([W EXCEPT !.ds = Put(W.ds, chat_id, FreshSession)],
        "reset_171", "reset_done", "none", "none")

\* handle_ping up to its await.
handle_ping(W, chat_id) == Seg(W, "ping_154", "pong", "none", "none")

\* A handle_ask that looks the session of the chat up, creating it for a
\* chat that has none.  C20_PingAskIndependent tells it from handle_ask.
handle_ask_lookup(W, chat_id, question) ==
    LET W0 == [W EXCEPT !.ds = get_dialog_state(W.ds, chat_id)]
    IN  IF strip(question) = <<>>
        THEN Seg(W0, "ask_180", "ask_usage", "none", "none")
        ELSE Seg(W0, "ask_186", "thinking", "none", "none")

\* handle_ask up to its first await; question is message.text[5:].
handle_ask(W, chat_id, question) ==
    IF strip(question) = <<>>
    THEN Seg(W, "ask_180", "ask_usage", "none", "none")
    ELSE Seg(W, "ask_186", "thinking", "none", "none")

\* The try block of handle_ask (lines 188-191) up to its await.
handle_ask_try(W, chat_id, o) ==
    LET g == get_llm_client(W.client, environ, o.ctor)
        a == ask_question(o.completion)
    IN  IF g.raised
        THEN Seg(W, "ask_195", "fallback", "none", "none")
        ELSE IF a.raised
             THEN Asked(a.calls, Seg([W EXCEPT !.client = g.client],
                                     "ask_195", "fallback", o.completion, "none"))
             ELSE Saying(a.text,
                     Asked(a.calls, Seg([W EXCEPT !.client = g.client],
                                        "ask_191", "answer", o.completion, "none")))

\* handlers.py:330-334: the recommendation between the fixed opening
\* ("Osnovyvayas na vashikh otvetakh, rekomenduyu:") and the fixed closing
\* question ("Khoteli by ostavit kontakt dlya obsuzhdeniya detaley?").
response(recommendation) ==
    <<"Osnovyvayas na vashikh otvetakh, rekomenduyu:">>
        \o recommendation
        \o <<"Khoteli by ostavit kontakt dlya obsuzhdeniya detaley?">>

\* A handle_offering_stage that tells the fallback text from a
\* recommendation and stores only the latter; C24_FallbackIsRecommendation
\* tells it from handle_offering_stage.
handle_offering_stage_real_only(W, chat_id, o) ==
    LET ds0 == get_dialog_state(W.ds, chat_id)
        g == get_llm_client(W.client, environ, o.ctor)
        a == ask_question(o.completion)
        kept == IF a.text = FALLBACK_MESSAGE
                THEN ds0[chat_id].last_llm_suggestion
                ELSE a.text
    IN  IF g.raised
        THEN Seg([W EXCEPT !.ds = ds0], "offer_349", "fallback", "none", "none")
        ELSE Saying(response(a.text),
                 Asked(a.calls,
                       Seg([W EXCEPT
                               !.ds = [ds0 EXCEPT
                                          ![chat_id].last_llm_suggestion = kept],
                               !.client = g.client],
                           "offer_343", "recommendation", o.completion, "none")))

\* handle_offering_stage up to its first await.
handle_offering_stage(W, chat_id, o) ==
    LET ds0 == get_dialog_state(W.ds, chat_id)
        g == get_llm_client(W.client, environ, o.ctor)
        a == ask_question(o.completion)
    IN  IF g.raised
        THEN Seg([W EXCEPT !.ds = ds0], "offer_349", "fallback", "none", "none")
        ELSE IF a.raised
             THEN Asked(a.calls,
                        Seg([W EXCEPT !.ds = ds0, !.client = g.client],
                            "offer_349", "fallback", o.completion, "none"))
             ELSE Saying(response(a.text),
                      Asked(a.calls,
                            Seg([W EXCEPT
                                    !.ds = [ds0 EXCEPT
                                               ![chat_id].last_llm_suggestion = a.text],
                                    !.client = g.client],
                                "offer_343", "recommendation", o.completion, "none")))

\* A mutant of handle_qualifying_stage: the three-question variant, which
\* goes on to the offer after the timeline answer.
handle_qualifying_stage_three(W, chat_id, user_text, o) ==
    LET ds0 == get_dialog_state(W.ds, chat_id)
        answers == ds0[chat_id].answers
    IN  IF "intent" \notin DOMAIN answers
        THEN Seg([W EXCEPT !.ds = save_answer(ds0, chat_id, "intent", user_text)],
                 "qual_257", "ask_budget", "none", "none")
        ELSE IF "budget" \notin DOMAIN answers
        THEN Seg([W EXCEPT !.ds = save_answer(ds0, chat_id, "budget", user_text)],
                 "qual_276", "ask_timeline", "none", "none")
        ELSE IF "timeline" \notin DOMAIN answers
        THEN Called("qual_303",
                 handle_offering_stage(
                     [W EXCEPT !.ds = update_dialog_stage(
                                          save_answer(ds0, chat_id, "timeline",
                                                      user_text),
                                          chat_id, "offering")],
                     chat_id, o))
        ELSE Seg([W EXCEPT !.ds = ds0], "returned", "none", "none", "none")

\* handle_qualifying_stage up to its first await.
handle_qualifying_stage(W, chat_id, user_text, o) ==
    LET ds0 == get_dialog_state(W.ds, chat_id)
        answers == ds0[chat_id].answers
    IN  IF "intent" \notin DOMAIN answers
        THEN Seg([W EXCEPT !.ds = save_answer(ds0, chat_id, "intent", user_text)],
                 "qual_257", "ask_budget", "none", "none")
        ELSE IF "budget" \notin DOMAIN answers
        THEN Seg([W EXCEPT !.ds = save_answer(ds0, chat_id, "budget", user_text)],
                 "qual_276", "ask_timeline", "none", "none")
        ELSE IF "timeline" \notin DOMAIN answers
        THEN Seg([W EXCEPT !.ds = save_answer(ds0, chat_id, "timeline", user_text)],
                 "qual_296", "ask_priority", "none", "none")
        ELSE IF "priority" \notin DOMAIN answers
        THEN Called("qual_303",
                 handle_offering_stage(
                     [W EXCEPT !.ds = update_dialog_stage(
                                          save_answer(ds0, chat_id, "priority",
                                                      user_text),
                                          chat_id, "offering")],
                     chat_id, o))
        ELSE Seg([W EXCEPT !.ds = ds0], "returned", "none", "none", "none")

\* The names handle_contact_stage binds (its parameters and the targets of
\* its assignments, imports and except clause) and the names handlers.py
\* binds at module level.
ContactStageLocals ==
    {"message", "user_text", "chat_id", "contact_request", "farewell",
     "get_lead_store", "lead_store", "success", "success_message", "e"}

ModuleGlobals ==
    {"logging", "datetime", "Dict", "Any", "Optional", "types", "Router",
     "Command", "ReplyKeyboardMarkup", "KeyboardButton", "get_llm_client",
     "dialog_states", "router", "get_dialog_state", "is_returning_user",
     "get_continuation_message", "update_dialog_stage", "save_answer",
     "handle_start", "handle_ping", "handle_reset", "handle_ask",
     "handle_any_message", "handle_qualifying_stage", "handle_offering_stage",
     "handle_contact_stage"}

\* Whether evaluating a name inside a function with these locals succeeds
\* (otherwise NameError).
NameBound(name, locals) == name \in locals \cup ModuleGlobals

\* A handle_contact_stage without the try/except of lines 384-411: what the
\* Lead Sink raises leaves the handler.  C6_SinkFailure tells it from
\* handle_contact_stage.
handle_contact_stage_uncaught(W, chat_id, user_text, o) ==
    IF lower(user_text) \in AFFIRMATIVE
    THEN Seg(W, "contact_366", "contact_request", "none", "none")
    ELSE IF lower(user_text) \in NEGATIVE
    THEN Seg(W, "contact_374", "farewell", "none", "none")
    ELSE
      LET ds1 == save_answer(W.ds, chat_id, "contact", user_text)
          g == get_lead_store(W.store, W.csv, o.create)
          W1 == [W EXCEPT !.ds = ds1, !.store = g.store, !.csv = g.csv]
      IN  Seg(W1, "raised", "none", "none", "raised")

\* A handle_contact_stage that compares the text with the tokens without
\* lowering it.  C10_Negative tells it from handle_contact_stage.
handle_contact_stage_cased(W, chat_id, user_text, o) ==
    IF user_text \in AFFIRMATIVE
    THEN Seg(W, "contact_366", "contact_request", "none", "none")
    ELSE IF user_text \in NEGATIVE
    THEN Seg(W, "contact_374", "farewell", "none", "none")
    ELSE
      LET ds1 == save_answer(W.ds, chat_id, "contact", user_text)
          g == get_lead_store(W.store, W.csv, o.create)
          W1 == [W EXCEPT !.ds = ds1, !.store = g.store, !.csv = g.csv]
      IN  Seg(W1, "contact_417", "ack_received", "none", "raised")

\* A handle_contact_stage without the branch of lines 357-366: an affirmative
\* token is taken for the contact.  C11_Affirmative tells it from
\* handle_contact_stage.
handle_contact_stage_no_affirmative(W, chat_id, user_text, o) ==
    IF lower(user_text) \in NEGATIVE
    THEN Seg(W, "contact_374", "farewell", "none", "none")
    ELSE
      LET ds1 == save_answer(W.ds, chat_id, "contact", user_text)
          g == get_lead_store(W.store, W.csv, o.create)
          W1 == [W EXCEPT !.ds = ds1, !.store = g.store, !.csv = g.csv]
      IN  Seg(W1, "contact_417", "ack_received", "none", "raised")

\* handle_contact_stage up to its first await.  Line 388 passes
\* dialog_state=state, and handle_contact_stage binds no name state.
handle_contact_stage(W, chat_id, user_text, o) ==
    IF lower(user_text) \in AFFIRMATIVE
    THEN Seg(W, "contact_366", "contact_request", "none", "none")
    ELSE IF lower(user_text) \in NEGATIVE
    THEN Seg(W, "contact_374", "farewell", "none", "none")
    ELSE
      LET ds1 == save_answer(W.ds, chat_id, "contact", user_text)
          g == get_lead_store(W.store, W.csv, o.create)
          W1 == [W EXCEPT !.ds = ds1, !.store = g.store, !.csv = g.csv]
      IN  IF g.raised
          THEN Seg(W1, "contact_417", "ack_received", "none", "raised")
          ELSE IF ~NameBound("state", ContactStageLocals)
          THEN Seg(W1, "contact_417", "ack_received", "none", "raised")
          ELSE LET s == save_lead_from_dialog(g.csv, o.append, chat_id,
                                              ds1[chat_id], user_text, <<>>)
               IN  IF s.success
                   THEN Appended(1, Seg([W1 EXCEPT !.csv = s.csv],
                                        "contact_417", "ack_saved", "none", "saved"))
                   ELSE Appended(1, Seg(W1, "contact_417", "ack_received",
                                        "none", "refused"))

\* handle_any_message up to its first await.
handle_any_message(W, chat_id, text, o) ==
    IF text = NoText
    THEN Seg(W, "raised", "none", "none", "none")
    ELSE
      LET user_text == strip(text)
          ds0 == get_dialog_state(W.ds, chat_id)
          W0 == [W EXCEPT !.ds = ds0]
          current_stage == ds0[chat_id].stage
      IN  IF user_text = <<>>
          THEN Seg(W, "returned", "none", "none", "none")
          ELSE IF current_stage = "greeting"
          THEN Called("any_215", handle_start(W0, chat_id))
          ELSE IF current_stage = "qualifying"
          THEN Called("any_219", handle_qualifying_stage(W0, chat_id, user_text, o))
          ELSE IF current_stage = "offering"
          THEN Called("any_223", handle_offering_stage(W0, chat_id, o))
          ELSE IF current_stage = "collecting_contact"
          THEN Called("any_227", handle_contact_stage(W0, chat_id, user_text, o))
          ELSE Called("any_231", handle_start(W0, chat_id))

\* The awaits after which the handler only returns.
LastAwaits ==
    {"start_109", "start_118", "ping_154", "reset_171", "ask_180",
     "qual_257", "qual_276", "qual_296", "contact_366"}

\* A handler suspended at the await of line pc goes on after the send
\* returned (send = "ok") or raised (send = "raise"), up to its next await.
resume(W, chat_id, pc, send, o) ==
    LET returned == Seg(W, "returned", "none", "none", "none")
        raised == Seg(W, "raised", "none", "none", "none")
        stage(s) == Seg([W EXCEPT !.ds = update_dialog_stage(W.ds, chat_id, s)],
                        "returned", "none", "none", "none")
    IN  CASE pc \in LastAwaits -> IF send = "ok" THEN returned ELSE raised
          [] pc = "start_94" ->
               IF send = "raise" THEN raised
               ELSE LET ds0 == get_dialog_state(W.ds, chat_id)
                        W0 == [W EXCEPT !.ds = ds0]
                        current_stage == ds0[chat_id].stage
                    IN  IF current_stage = "qualifying"
                        THEN Seg(W0, "start_109", "keyboard_qualifying", "none", "none")
                        ELSE IF current_stage = "offering"
                        THEN Seg(W0, "start_118", "keyboard_offering", "none", "none")
                        ELSE Seg(W0, "returned", "none", "none", "none")
          [] pc = "start_146" ->
               IF send = "ok" THEN stage("qualifying") ELSE raised
          [] pc = "ask_186" ->
               IF send = "ok" THEN handle_ask_try(W, chat_id, o) ELSE raised
          [] pc = "ask_191" ->
               IF send = "ok" THEN returned
               ELSE Seg(W, "ask_195", "fallback", "none", "none")
          [] pc = "ask_195" -> IF send = "ok" THEN returned ELSE raised
          [] pc = "offer_343" ->
               IF send = "ok" THEN stage("collecting_contact")
               ELSE Seg(W, "offer_349", "fallback", "none", "none")
          [] pc = "offer_349" ->
               IF send = "ok" THEN stage("collecting_contact") ELSE raised
          [] pc = "contact_374" ->
               IF send = "ok" THEN stage("done") ELSE raised
          [] pc = "contact_417" ->
               IF send = "ok" THEN stage("done") ELSE raised

(* ------------------------------- actions ------------------------------- *)

\* A handler in flight: the await it is suspended at, the reply it is
\* sending there, the number of its replies delivered so far, and the call
\* sites below its frame (none for a command handler the router called).
Handler(pc, reply, sent, via) ==
    [pc |-> pc, reply |-> reply, sent |-> sent, via |-> via]

InFlight(c) == BagCardinality(inflight[c])

Idle(c) == InFlight(c) = 0

\* The transport starts a handler for every update it receives, as a task of
\* its own; the model bounds the handlers of one chat that are in flight.
CanDispatch(c) == InFlight(c) < MaxInFlight

\* The state after a handler segment: the world it left, and the handler
\* back in the bag unless it ended.
Commit(c, s, others, sent, via, received) ==
    /\ dialog_states' = s.ds
    /\ submitted' = [submitted EXCEPT ![c] = received]
    /\ llm_client' = s.client
    /\ lead_store' = s.store
    /\ csv_file' = s.csv
    /\ inflight' =
         [inflight EXCEPT
            ![c] = IF s.pc \in Ended
                   THEN others
                   ELSE others (+) SetToBag({Handler(s.pc, s.reply, sent, via)})]
    /\ UNCHANGED environ

\* The history of a chat after a segment: it starts again when the segment
\* replaced the session by a fresh one (the segment stands at line 146 or
\* 171), and it takes a non-empty text received in stage qualifying (the
\* first four of them: a session has four questions).
Received(c, s, text) ==
    IF s.pc \in {"start_146", "reset_171"}
    THEN <<>>
    ELSE IF /\ text # NoText
            /\ strip(text) # <<>>
            /\ StageOf(dialog_states, c) = "qualifying"
            /\ Len(submitted[c]) < Len(QuestionKeys)
         THEN Append(submitted[c], strip(text))
         ELSE submitted[c]

\* The steps, with their inputs named.
StartStep(c) ==
    LET s == handle_start(World, c)
    IN  CanDispatch(c) /\ Commit(c, s, inflight[c], 0, s.via, Received(c, s, NoText))

ResetStep(c) ==
    LET s == handle_reset(World, c)
    IN  CanDispatch(c) /\ Commit(c, s, inflight[c], 0, s.via, Received(c, s, NoText))

PingStep(c) ==
    CanDispatch(c)
        /\ Commit(c, handle_ping(World, c), inflight[c], 0, <<>>, submitted[c])

AskStep(c, question) ==
    CanDispatch(c)
        /\ Commit(c, handle_ask(World, c, question), inflight[c], 0, <<>>,
                  submitted[c])

MessageStep(c, text, o) ==
    LET s == handle_any_message(World, c, text, o)
    IN  CanDispatch(c) /\ Commit(c, s, inflight[c], 0, s.via, Received(c, s, text))

Delivered(h, send) == IF send = "ok" THEN h.sent + 1 ELSE h.sent

ResumeStep(c, h, send, o) ==
    BagIn(h, inflight[c])
        /\ Commit(c, resume(World, c, h.pc, send, o),
                  inflight[c] (-) SetToBag({h}), Delivered(h, send), h.via,
                  submitted[c])

\* The outcomes a segment draws: those of the Gateway only when the segment
\* may reach it, those of the Sink only when it may reach that; no other
\* segment reads them.
Outcomes(llmStep, sinkStep) ==
    [ctor : IF llmStep /\ llm_client = "None" THEN Constructions ELSE {"ok"},
     completion : IF llmStep THEN Completions ELSE {"content"},
     create : IF sinkStep /\ lead_store = "None" THEN FileOps ELSE {"ok"},
     append : IF sinkStep THEN FileOps ELSE {"ok"}]

MayReachGateway(c) ==
    \/ StageOf(dialog_states, c) = "offering"
    \/ /\ StageOf(dialog_states, c) = "qualifying"
       /\ {"intent", "budget", "timeline"} \subseteq DOMAIN AnswersOf(dialog_states, c)

MayReachSink(c) == StageOf(dialog_states, c) = "collecting_contact"

\* /start
Start(c) == StartStep(c)

\* /reset
Reset(c) == ResetStep(c)

\* /ping
Ping(c) == PingStep(c)

\* /ask <question>
Ask(c) == \E question \in {TxtBlank, TxtFree} : AskStep(c, question)

\* Any other message.
Message(c) ==
    \E text \in Texts \cup {NoText},
       o \in Outcomes(MayReachGateway(c), MayReachSink(c)) :
        MessageStep(c, text, o)

\* The send a handler awaits returns or raises, and the handler goes on.
Resume(c, pcs) ==
    \E h \in BagToSet(inflight[c]), send \in {"ok", "raise"} :
        /\ h.pc \in pcs
        /\ \E o \in Outcomes(h.pc = "ask_186" /\ send = "ok", FALSE) :
              ResumeStep(c, h, send, o)

ResumeStart(c) == Resume(c, {"start_94", "start_109", "start_118", "start_146"})

ResumeReset(c) == Resume(c, {"reset_171"})

ResumePing(c) == Resume(c, {"ping_154"})

ResumeAsk(c) == Resume(c, {"ask_180", "ask_186", "ask_191", "ask_195"})

ResumeQualifying(c) == Resume(c, {"qual_257", "qual_276", "qual_296"})

ResumeOffering(c) == Resume(c, {"offer_343", "offer_349"})

ResumeContact(c) == Resume(c, {"contact_366", "contact_374", "contact_417"})

(* ---------------------------- specification ---------------------------- *)

Init ==
    /\ dialog_states = EmptyMap
    /\ inflight = [c \in Chats |-> EmptyBag]
    /\ environ \in {[LLM_BASE_URL |-> TRUE, LLM_API_KEY |-> TRUE],
                    [LLM_BASE_URL |-> FALSE, LLM_API_KEY |-> TRUE],
                    [LLM_BASE_URL |-> TRUE, LLM_API_KEY |-> FALSE]}
    /\ llm_client = "None"
    /\ lead_store = "None"
    /\ csv_file = NoFile
    /\ submitted = [c \in Chats |-> <<>>]

\* The dialogue: /start, /reset and freeform messages, their handlers
\* interleaving at their awaits.
Next ==
    \E c \in Chats :
        \/ Start(c)
        \/ Reset(c)
        \/ Message(c)
        \/ ResumeStart(c)
        \/ ResumeReset(c)
        \/ ResumeQualifying(c)
        \/ ResumeOffering(c)
        \/ ResumeContact(c)

Spec == Init /\ [][Next]_vars

\* Every command, one handler at a time: a message is dispatched only when
\* the handler of the message before it has ended.
NextSerial ==
    \E c \in Chats :
        \/ Idle(c) /\ Start(c)
        \/ Idle(c) /\ Reset(c)
        \/ Idle(c) /\ Ping(c)
        \/ Idle(c) /\ Ask(c)
        \/ Idle(c) /\ Message(c)
        \/ ResumeStart(c)
        \/ ResumeReset(c)
        \/ ResumePing(c)
        \/ ResumeAsk(c)
        \/ ResumeQualifying(c)
        \/ ResumeOffering(c)
        \/ ResumeContact(c)

SpecSerial == Init /\ [][NextSerial]_vars

\* Two chat identities.  The handlers of one chat run one at a time, and the
\* handlers of the two chats interleave at their awaits.
TwoChats == Chats \cup {43}

\* The texts of the two-chat dialogue: the first chat sends a free text and
\* a negative token, the second chat free texts only.
TextsOf(c) == IF c \in Chats THEN {TxtNet, TxtFree} ELSE {TxtFree}

MessageOf(c) ==
    \E text \in TextsOf(c),
       o \in Outcomes(MayReachGateway(c), MayReachSink(c)) :
        MessageStep(c, text, o)

InitTwo ==
    /\ dialog_states = EmptyMap
    /\ inflight = [c \in TwoChats |-> EmptyBag]
    /\ environ = [LLM_BASE_URL |-> TRUE, LLM_API_KEY |-> TRUE]
    /\ llm_client = "None"
    /\ lead_store = "None"
    /\ csv_file = NoFile
    /\ submitted = [c \in TwoChats |-> <<>>]

NextTwo ==
    \E c \in TwoChats :
        \/ Idle(c) /\ Start(c)
        \/ Idle(c) /\ Reset(c)
        \/ Idle(c) /\ MessageOf(c)
        \/ ResumeStart(c)
        \/ ResumeReset(c)
        \/ ResumeQualifying(c)
        \/ ResumeOffering(c)
        \/ ResumeContact(c)

SpecTwo == InitTwo /\ [][NextTwo]_vars

\* The Lead Sink on its own: a caller obtains the store, saves leads with
\* save_lead and saves the leads of sessions with save_lead_from_dialog.
\* MaxRows bounds the rows of the file.
MaxRows == 3

\* The sessions a lead is saved from: with and without a recommendation,
\* with all the answers, some of them, or none.
SampleAnswers ==
    LET full == [k \in AnswerKeys |->
                    IF k = "intent" THEN strip(TxtFree)
                    ELSE IF k = "budget" THEN strip(TxtNet)
                    ELSE strip(TxtDa)]
    IN  {[k \in K |-> full[k]] :
            K \in {AnswerKeys, {"intent", "budget", "contact"},
                   {"timeline", "priority"}, {}}}

SampleSessions ==
    [stage : {"collecting_contact"}, answers : SampleAnswers,
     last_llm_suggestion : {<<>>, RecText, FALLBACK_MESSAGE}]

GetLeadStoreStep(io) ==
    LET g == get_lead_store(lead_store, csv_file, io)
    IN  /\ lead_store' = g.store
        /\ csv_file' = g.csv
        /\ UNCHANGED <<dialog_states, inflight, environ, llm_client, submitted>>

SaveLeadStep(io, chat_id, contact, intent, status) ==
    LET r == save_lead(csv_file, io, chat_id, contact, intent, <<>>, <<>>, status)
    IN  /\ lead_store = "LeadStore"
        /\ Len(csv_file.rows) < MaxRows
        /\ csv_file' = r.csv
        /\ UNCHANGED <<dialog_states, inflight, environ, llm_client,
                       lead_store, submitted>>

SaveLeadFromDialogStep(io, chat_id, contact) ==
    LET r == save_lead_from_dialog(csv_file, io, chat_id,
                                   dialog_states[chat_id], contact, <<>>)
    IN  /\ lead_store = "LeadStore"
        /\ chat_id \in DOMAIN dialog_states
        /\ Len(csv_file.rows) < MaxRows
        /\ csv_file' = r.csv
        /\ dialog_states' = [dialog_states EXCEPT ![chat_id] = r.dialog_state]
        /\ UNCHANGED <<inflight, environ, llm_client, lead_store, submitted>>

\* get_lead_store()
GetLeadStore == \E io \in CreateOps : GetLeadStoreStep(io)

\* get_lead_store().save_lead(...)
SaveLead ==
    \E io \in FileOps, c \in Chats, status \in {"new", "qualified"} :
        SaveLeadStep(io, c, strip(TxtFree), strip(TxtDa), status)

\* get_lead_store().save_lead_from_dialog(...)
SaveLeadFromDialog ==
    \E io \in FileOps, c \in Chats :
        SaveLeadFromDialogStep(io, c, strip(TxtFree))

InitStore ==
    /\ dialog_states \in [Chats -> SampleSessions]
    /\ inflight = [c \in Chats |-> EmptyBag]
    /\ environ = [LLM_BASE_URL |-> TRUE, LLM_API_KEY |-> TRUE]
    /\ llm_client = "None"
    /\ lead_store = "None"
    /\ csv_file = NoFile
    /\ submitted = [c \in Chats |-> <<>>]

NextStore == GetLeadStore \/ SaveLead \/ SaveLeadFromDialog

SpecStore == InitStore /\ [][NextStore]_vars

TypeOK ==
    /\ DOMAIN dialog_states \subseteq Chats
    /\ \A c \in DOMAIN dialog_states :
          /\ dialog_states[c].stage \in Stages
          /\ DOMAIN dialog_states[c].answers \subseteq AnswerKeys
    /\ \A c \in Chats : InFlight(c) <= MaxInFlight
    /\ llm_client \in {"None", "LLMClient"}
    /\ lead_store \in {"None", "LeadStore"}

(* ------------------------------- claims -------------------------------- *)

HasSession(c) == c \in DOMAIN dialog_states

Stage(c) == StageOf(dialog_states, c)

Answers(c) == AnswersOf(dialog_states, c)

Suspended(c, pcs) == \E h \in BagToSet(inflight[c]) : h.pc \in pcs

\* A handler is suspended at one of pcs that was reached through line site.
SuspendedVia(c, pcs, site) ==
    \E h \in BagToSet(inflight[c]) :
        h.pc \in pcs /\ \E i \in 1..Len(h.via) : h.via[i] = site

Suggestion(c) ==
    IF c \in DOMAIN dialog_states
    THEN dialog_states[c].last_llm_suggestion
    ELSE <<>>

\* The message carries a text that is not blank.
IsText(text) == text # NoText /\ strip(text) # <<>>

\* The data rows of the CSV file.
Leads == SelectSeq(csv_file.rows, LAMBDA r : ~r.header)

\* The answers a session holds after the texts sub were submitted in order:
\* the i-th question key is mapped to the i-th text.
FirstAnswers(sub) ==
    [k \in {QuestionKeys[i] : i \in 1..Len(sub)} |->
        sub[CHOOSE i \in 1..Len(sub) : QuestionKeys[i] = k]]

QuestionAnswers(c) ==
    [k \in (DOMAIN Answers(c)) \cap {QuestionKeys[i] : i \in 1..Len(QuestionKeys)}
        |-> Answers(c)[k]]

C1_Answers(c) ==
    /\ QuestionAnswers(c) = FirstAnswers(submitted[c])
    /\ Len(submitted[c]) = 4
          <=> Stage(c) \in {"offering", "collecting_contact", "done"}

C1_Step(c) ==
    /\ (Len(submitted[c]) = 3 /\ Len(submitted'[c]) = 4)
          => /\ Stage(c) = "qualifying"
             /\ Stage(c)' = "offering"
             /\ SuspendedVia(c, {"offer_343", "offer_349"}, "qual_303")'
    /\ (Stage(c)' = "offering" /\ Stage(c) # "offering")
          => Len(submitted[c]) = 3 /\ Len(submitted'[c]) = 4
    /\ (Stage(c)' = "collecting_contact" /\ Stage(c) # "collecting_contact")
          => Stage(c) = "offering" /\ Len(submitted'[c]) = 4
    /\ \A h \in BagToSet(inflight[c]), o \in AllOutcomes :
          (h.pc \in {"offer_343", "offer_349"} /\ ResumeStep(c, h, "ok", o))
              => Stage(c)' = "collecting_contact"

\* C1: with one handler at a time, the non-empty freeform texts a session
\* receives in stage qualifying are stored in order under intent, budget,
\* timeline and priority, whatever they are; the step that takes the fourth
\* text moves the stage from qualifying to offering and runs the offering
\* logic itself (the handler stands at a reply of handle_offering_stage);
\* the stage becomes offering only there and collecting_contact only from
\* offering, when a reply of the offering logic is delivered.
C1_FourAnswers ==
    [][\A c \in Chats : C1_Answers(c)' /\ C1_Step(c)]_vars

\* C1: four different texts were taken, the offer was made, and the handler
\* of the fourth message has returned.
C1_Witness ==
    \E c \in Chats :
        /\ Idle(c)
        /\ Stage(c) = "collecting_contact"
        /\ submitted[c] = <<strip(TxtFree), strip(TxtNet), strip(TxtDa), strip(TxtFree)>>
        /\ Answers(c) = FirstAnswers(submitted[c])

\* C2: a message in stage collecting_contact that is neither an affirmative
\* nor a negative token is stored under answers['contact'], and (the file
\* operations succeeding) exactly one Lead is appended to the Lead Sink, its
\* contact the message text and its intent the session's intent answer; the
\* stage becomes done once the acknowledgment is delivered.
C2_ContactAppendsLead ==
    [][\A c \in Chats, text \in Texts, o \in AllOutcomes :
         /\ ( /\ Stage(c) = "collecting_contact"
              /\ IsText(text)
              /\ lower(strip(text)) \notin AFFIRMATIVE \cup NEGATIVE
              /\ o.create = "ok" /\ o.append = "ok"
              /\ MessageStep(c, text, o) )
            => /\ "contact" \in DOMAIN Answers(c)'
               /\ Answers(c)'["contact"] = strip(text)
               /\ Len(Leads') = Len(Leads) + 1
               /\ Leads'[Len(Leads')].fields.contact = strip(text)
               /\ Leads'[Len(Leads')].fields.intent = Answers(c)["intent"]
         /\ \A h \in BagToSet(inflight[c]) :
              (h.pc = "contact_417" /\ ResumeStep(c, h, "ok", o))
                  => Stage(c)' = "done"
      ]_vars

SerialSession(c) ==
    LET keys == DOMAIN Answers(c)
        four == {QuestionKeys[i] : i \in 1..Len(QuestionKeys)}
    IN  CASE Stage(c) = "none" -> TRUE
          [] Stage(c) = "greeting" -> keys = {} /\ Suggestion(c) = <<>>
          [] Stage(c) = "qualifying" ->
                /\ \E k \in 0..3 : keys = {QuestionKeys[i] : i \in 1..k}
                /\ Suggestion(c) = <<>>
          [] Stage(c) = "offering" -> keys = four
          [] Stage(c) = "collecting_contact" -> four \subseteq keys
          [] OTHER -> four \subseteq keys

\* C4: whatever handlers are in flight at once, the session of a chat is one
\* that handling its messages one after the other produces.
C4_InterleavingIsSerial == \A c \in Chats : SerialSession(c)

\* C5: ask_question never raises; when the completion call raises or returns
\* no choices, it returns FALLBACK_MESSAGE, which handle_offering_stage stores
\* and presents as the recommendation; and whenever handle_offering_stage
\* returns, after its recommendation or after its fallback reply was
\* delivered, the stage is collecting_contact.
C5_GatewayFailure ==
    [][\A c \in Chats :
         /\ \A completion \in Completions :
              /\ ~ask_question(completion).raised
              /\ completion \in {"raise", "no_choices"}
                   => ask_question(completion).text = FALLBACK_MESSAGE
         /\ MayReachGateway(c) =>
              \A text \in Texts, o \in Outcomes(TRUE, FALSE) :
                 ( /\ o.completion \in {"raise", "no_choices"}
                   /\ handle_any_message(World, c, text, o).llm = o.completion
                   /\ MessageStep(c, text, o) )
                     => /\ Suggestion(c)' = FALLBACK_MESSAGE
                        /\ Suspended(c, {"offer_343"})'
         /\ \A h \in BagToSet(inflight[c]), o \in Outcomes(FALSE, FALSE) :
              /\ (h.pc \in {"offer_343", "offer_349"} /\ ResumeStep(c, h, "ok", o))
                    => Stage(c)' = "collecting_contact" /\ InFlight(c)' = InFlight(c) - 1
              /\ (h.pc = "offer_343" /\ ResumeStep(c, h, "raise", o))
                    => Suspended(c, {"offer_349"})'
      ]_vars

\* C5: the Gateway failed, the fallback text is the stored suggestion, and
\* the handler has returned with the stage collecting_contact.
C5_Witness ==
    \E c \in Chats :
        /\ Idle(c)
        /\ Stage(c) = "collecting_contact"
        /\ Suggestion(c) = FALLBACK_MESSAGE

\* C6: when the Lead Sink fails (creating the store raises, or the append
\* refuses or raises), the contact stays stored, no exception leaves
\* handle_contact_stage, which sends the acknowledgment as its one reply,
\* and once that is delivered the handler has returned, the stage is done
\* and the answers are the ones it stored.
C6_SinkFailure ==
    [][\A c \in Chats :
         /\ Stage(c) = "collecting_contact" =>
              \A text \in Texts, o \in Outcomes(FALSE, TRUE) :
                 ( /\ IsText(text)
                   /\ lower(strip(text)) \notin AFFIRMATIVE \cup NEGATIVE
                   /\ handle_contact_stage(World, c, strip(text), o).sink
                         \in {"refused", "raised"}
                   /\ MessageStep(c, text, o) )
                     => /\ SuspendedVia(c, {"contact_417"}, "any_227")'
                        /\ Answers(c)' = Put(Answers(c), "contact", strip(text))
                        /\ Stage(c)' = "collecting_contact"
         /\ \A h \in BagToSet(inflight[c]), o \in Outcomes(FALSE, FALSE) :
              (h.pc = "contact_417" /\ ResumeStep(c, h, "ok", o))
                  => /\ h.sent = 0
                     /\ h.reply \in {"ack_received", "ack_saved"}
                     /\ InFlight(c)' = InFlight(c) - 1
                     /\ Stage(c)' = "done"
                     /\ Answers(c)' = Answers(c)
      ]_vars

\* C6: creating the Lead Sink raised (there is still no store and no file),
\* and the handler has returned with the contact stored and the stage done.
C6_Witness ==
    \E c \in Chats :
        /\ Idle(c)
        /\ Stage(c) = "done"
        /\ "contact" \in DOMAIN Answers(c)
        /\ lead_store = "None"
        /\ csv_file = NoFile

\* C7: /start in stage qualifying, offering or collecting_contact leaves the
\* session as it is, through all the replies of the handler; /start with no
\* session or in stage greeting or done puts a fresh session in its place,
\* and the stage is qualifying once the welcome is delivered.
C7_StartResumes ==
    [][\A c \in Chats :
         /\ ( /\ Stage(c) \in {"qualifying", "offering", "collecting_contact"}
              /\ StartStep(c) )
              => dialog_states' = dialog_states /\ Suspended(c, {"start_94"})'
         /\ (Stage(c) \in {"none", "greeting", "done"} /\ StartStep(c))
              => /\ Stage(c)' = "greeting"
                 /\ Answers(c)' = EmptyMap
                 /\ Suggestion(c)' = <<>>
                 /\ Suspended(c, {"start_146"})'
         /\ \A o \in Outcomes(FALSE, FALSE), h \in BagToSet(inflight[c]) :
              /\ \A send \in {"ok", "raise"} :
                   ( /\ h.pc \in {"start_94", "start_109", "start_118"}
                     /\ ResumeStep(c, h, send, o) )
                       => dialog_states' = dialog_states
              /\ (h.pc = "start_146" /\ h.via = <<>> /\ ResumeStep(c, h, "ok", o))
                   => Stage(c)' = "qualifying"
      ]_vars

\* C7: /start came with the intent answered; the session is untouched and
\* the handler is sending the continuation question.
C7_Witness ==
    \E c \in Chats :
        /\ Suspended(c, {"start_109"})
        /\ Stage(c) = "qualifying"
        /\ DOMAIN Answers(c) = {"intent"}

\* C8: a non-empty freeform message in stage done or greeting puts a fresh
\* session in place of the session and sends the welcome; its text is stored
\* nowhere, and once the welcome is delivered the stage is qualifying with
\* no answers.  Every such message does so.
C8_DoneRestarts ==
    [][\A c \in Chats, o \in Outcomes(FALSE, FALSE) :
         /\ \A text \in Texts :
              ( /\ Stage(c) \in {"done", "greeting"}
                /\ IsText(text)
                /\ MessageStep(c, text, o) )
                  => /\ Stage(c)' = "greeting"
                     /\ Answers(c)' = EmptyMap
                     /\ Suggestion(c)' = <<>>
                     /\ csv_file' = csv_file
                     /\ \E h \in BagToSet(inflight[c]') :
                           /\ h.pc = "start_146"
                           /\ h.reply = "welcome"
                           /\ h.via = <<IF Stage(c) = "done"
                                        THEN "any_231" ELSE "any_215">>
         /\ \A h \in BagToSet(inflight[c]) :
              (h.pc = "start_146" /\ h.via # <<>> /\ ResumeStep(c, h, "ok", o))
                  => Stage(c)' = "qualifying" /\ Answers(c)' = EmptyMap
      ]_vars

\* C8: a message came in stage done; the session is fresh and the welcome
\* is on its way.
C8_Witness ==
    \E c \in Chats :
        /\ SuspendedVia(c, {"start_146"}, "any_231")
        /\ Stage(c) = "greeting"
        /\ Answers(c) = EmptyMap

\* A step creates the session of chat c: the first lookup of the chat,
\* /reset, or /start for a user who is not returning.
Creates(c) ==
    \/ ~HasSession(c) /\ HasSession(c)'
    \/ ResetStep(c)
    \/ Stage(c) \in {"none", "greeting", "done"} /\ StartStep(c)

\* C9: a session that was just created has stage greeting, no answers and
\* an empty last_llm_suggestion.
C9_FreshSession ==
    [][\A c \in Chats :
         Creates(c)
            => /\ dialog_states'[c].stage = "greeting"
               /\ DOMAIN dialog_states'[c].answers = {}
               /\ dialog_states'[c].last_llm_suggestion = <<>>
      ]_vars

\* C9: /reset came in stage done, where the session had five answers and a
\* suggestion; the session in its place is fresh.
C9_Witness ==
    \E c \in Chats :
        /\ Suspended(c, {"reset_171"})
        /\ Len(Leads) = 0
        /\ lead_store = "LeadStore"
        /\ Stage(c) = "greeting"
        /\ Answers(c) = EmptyMap
        /\ Suggestion(c) = <<>>

\* C10: a negative token (the text stripped and lowered is one of NEGATIVE)
\* in stage collecting_contact changes neither the session nor the Lead
\* Sink; the handler sends the farewell, and once that is delivered the
\* stage is done, with the answers and the Lead Sink still as they were.
C10_Negative ==
    [][\A c \in Chats :
         /\ Stage(c) = "collecting_contact" =>
              \A text \in Texts, o \in Outcomes(FALSE, TRUE) :
                 ( /\ lower(strip(text)) \in NEGATIVE
                   /\ MessageStep(c, text, o) )
                     => /\ dialog_states' = dialog_states
                        /\ csv_file' = csv_file
                        /\ lead_store' = lead_store
                        /\ SuspendedVia(c, {"contact_374"}, "any_227")'
         /\ \A h \in BagToSet(inflight[c]), o \in Outcomes(FALSE, FALSE) :
              (h.pc = "contact_374" /\ ResumeStep(c, h, "ok", o))
                  => /\ h.reply = "farewell"
                     /\ Stage(c)' = "done"
                     /\ Answers(c)' = Answers(c)
                     /\ csv_file' = csv_file
      ]_vars

\* C10: the user declined; the handler has returned, the stage is done, no
\* contact is stored and the Lead Sink was never touched.
C10_Witness ==
    \E c \in Chats :
        /\ Idle(c)
        /\ Stage(c) = "done"
        /\ "contact" \notin DOMAIN Answers(c)
        /\ lead_store = "None"
        /\ csv_file = NoFile

\* C11: an affirmative token (the text stripped and lowered is one of
\* AFFIRMATIVE) in stage collecting_contact only asks for a contact method:
\* the step changes neither the session (stage, answers,
\* last_llm_suggestion) nor the Lead Sink, the handler sends the contact
\* request, and whether or not that is delivered the session and the Lead
\* Sink stay as they were.
C11_Affirmative ==
    [][\A c \in Chats :
         /\ Stage(c) = "collecting_contact" =>
              \A text \in Texts, o \in Outcomes(FALSE, TRUE) :
                 ( /\ lower(strip(text)) \in AFFIRMATIVE
                   /\ MessageStep(c, text, o) )
                     => /\ dialog_states' = dialog_states
                        /\ csv_file' = csv_file
                        /\ lead_store' = lead_store
                        /\ \E h \in BagToSet(inflight[c]') :
                              /\ h.pc = "contact_366"
                              /\ h.reply = "contact_request"
                              /\ h.via = <<"any_227">>
         /\ \A h \in BagToSet(inflight[c]), o \in Outcomes(FALSE, FALSE),
               send \in {"ok", "raise"} :
              (h.pc = "contact_366" /\ ResumeStep(c, h, send, o))
                  => /\ dialog_states' = dialog_states
                     /\ csv_file' = csv_file
                     /\ lead_store' = lead_store
                     /\ InFlight(c)' = InFlight(c) - 1
      ]_vars

\* C11: the user agreed to leave a contact; the contact request is on its
\* way, and the session still waits for the contact with no Lead Sink
\* touched.
C11_Witness ==
    \E c \in Chats :
        /\ SuspendedVia(c, {"contact_366"}, "any_227")
        /\ Stage(c) = "collecting_contact"
        /\ "contact" \notin DOMAIN Answers(c)
        /\ lead_store = "None"

\* The session of chat c in the store ds, if it has one.
SessionIn(ds, c) == IF c \in DOMAIN ds THEN <<ds[c]>> ELSE <<>>

\* The store ds without the session of chat b.
Forget(ds, b) == [k \in DOMAIN ds \ {b} |-> ds[k]]

\* Two handler segments of chat a do the same: they stand at the same await
\* with the same reply, and leave the same session of a, the same client and
\* the same Lead Sink.
SameFor(a, s, t) ==
    /\ s.pc = t.pc /\ s.reply = t.reply /\ s.via = t.via
    /\ s.llm = t.llm /\ s.sink = t.sink
    /\ SessionIn(s.ds, a) = SessionIn(t.ds, a)
    /\ s.client = t.client /\ s.store = t.store /\ s.csv = t.csv

\* The segment s of chat a, done in the world W, leaves the session of chat
\* b as it is in W, and is the segment t that a does without b.
Apart(W, a, b, s, t) ==
    SessionIn(s.ds, b) = SessionIn(W.ds, b) /\ SameFor(a, s, t)

\* C12: every handler segment that chat a can do (a command, a message, or
\* a handler going on after its await) leaves the session of every other
\* chat b as it is, whether b has one or not, and does for a what it would
\* do if b had no session at all; the handlers of a and b interleave at
\* their awaits.
C12_ChatIsolation ==
    \A a \in TwoChats : \A b \in TwoChats \ {a} :
        LET Alone == [World EXCEPT !.ds = Forget(dialog_states, b)]
        IN  /\ Apart(World, a, b, handle_start(World, a), handle_start(Alone, a))
            /\ Apart(World, a, b, handle_reset(World, a), handle_reset(Alone, a))
            /\ Apart(World, a, b, handle_ping(World, a), handle_ping(Alone, a))
            /\ \A question \in {TxtBlank, TxtFree} :
                 Apart(World, a, b, handle_ask(World, a, question),
                                    handle_ask(Alone, a, question))
            /\ \A text \in TextsOf(a),
                  o \in Outcomes(MayReachGateway(a), MayReachSink(a)) :
                 Apart(World, a, b, handle_any_message(World, a, text, o),
                                    handle_any_message(Alone, a, text, o))
            /\ \A h \in BagToSet(inflight[a]), send \in {"ok", "raise"},
                  o \in Outcomes(FALSE, FALSE) :
                 Apart(World, a, b, resume(World, a, h.pc, send, o),
                                    resume(Alone, a, h.pc, send, o))

\* C12: the handlers of both chats are suspended at once, one presenting the
\* recommendation, the other asking its second question, and each chat has
\* its own session.
C12_Witness ==
    /\ Suspended(42, {"offer_343"})
    /\ Suspended(43, {"qual_257"})
    /\ dialog_states[42].stage = "offering"
    /\ dialog_states[43].stage = "qualifying"
    /\ DOMAIN dialog_states[43].answers = {"intent"}

\* C13: whenever the CSV file holds any row, its first row is the header,
\* and a step only ever adds one row after the rows there are.
C13_HeaderFirst ==
    csv_file.rows # <<>> => csv_file.rows[1] = HeaderRow

\* C14: nothing the Lead Sink is asked raises: not get_lead_store, whatever
\* creating the file does, and not save_lead or save_lead_from_dialog,
\* whatever appending to it does.
C14_NeverRaises ==
    /\ \A io \in CreateOps : ~get_lead_store(lead_store, csv_file, io).raised
    /\ \A io \in FileOps, c \in Chats :
         /\ ~save_lead(csv_file, io, c, strip(TxtFree), strip(TxtDa), <<>>,
                       <<>>, "new").raised
         /\ c \in DOMAIN dialog_states
              => ~save_lead_from_dialog(csv_file, io, c, dialog_states[c],
                                        strip(TxtFree), <<>>).raised

\* The notes of the lead of session d: its recommendation if it has one,
\* else the summary of its budget, timeline and priority answers, each
\* missing one named as not given.
NotesOf(d) ==
    IF d.last_llm_suggestion # <<>>
    THEN d.last_llm_suggestion
    ELSE <<"Budget: ">>
            \o (IF "budget" \in DOMAIN d.answers
                THEN d.answers["budget"] ELSE <<"ne ukazan">>)
            \o <<", Sroki: ">>
            \o (IF "timeline" \in DOMAIN d.answers
                THEN d.answers["timeline"] ELSE <<"ne ukazany">>)
            \o <<", Prioritet: ">>
            \o (IF "priority" \in DOMAIN d.answers
                THEN d.answers["priority"] ELSE <<"ne ukazany">>)

\* C19: save_lead_from_dialog, when the append succeeds, adds one Lead whose
\* notes are the session's last_llm_suggestion if that is not empty and
\* else the summary of the budget, timeline and priority answers with a
\* placeholder for each missing one, whose status is new and whose contact
\* is the one given; when the append fails it adds nothing; either way the
\* session is left as it was.
C19_NotesDerivation ==
    [][\A c \in Chats, io \in FileOps :
         SaveLeadFromDialogStep(io, c, strip(TxtFree))
            => /\ dialog_states' = dialog_states
               /\ io = "raise" => csv_file' = csv_file
               /\ io = "ok" =>
                    /\ Len(csv_file'.rows) = Len(csv_file.rows) + 1
                    /\ SubSeq(csv_file'.rows, 1, Len(csv_file.rows)) = csv_file.rows
                    /\ LET lead == csv_file'.rows[Len(csv_file'.rows)].fields
                       IN  /\ lead.notes = NotesOf(dialog_states[c])
                           /\ lead.status = "new"
                           /\ lead.contact = strip(TxtFree)
                           /\ lead.chat_id = c
      ]_vars

\* C19: the file holds the lead of a session without a recommendation and
\* without a budget answer: its notes are the summary, the budget named as
\* not given.
C19_Witness ==
    \E i \in 1..Len(csv_file.rows) :
        /\ ~csv_file.rows[i].header
        /\ csv_file.rows[i].fields.status = "new"
        /\ csv_file.rows[i].fields.notes =
              <<"Budget: ", "ne ukazan", ", Sroki: ", "D", "a",
                ", Prioritet: ", "D", "a">>

\* C15: with LLM_BASE_URL or LLM_API_KEY missing the system does not start:
\* no handler ever runs, so there is no session and no handler in flight.
C15_RefusesToStart ==
    (~environ.LLM_BASE_URL \/ ~environ.LLM_API_KEY)
        => /\ dialog_states = EmptyMap
           /\ \A c \in Chats : Idle(c)

\* C16: the stage of every session is one of greeting, qualifying, offering,
\* collecting_contact, done, and every key of its answers is one of intent,
\* budget, timeline, priority, contact; handlers interleave at their awaits.
C16_StageAndKeys ==
    \A c \in DOMAIN dialog_states :
        /\ dialog_states[c].stage \in
              {"greeting", "qualifying", "offering", "collecting_contact", "done"}
        /\ \A k \in DOMAIN dialog_states[c].answers :
              k \in {"intent", "budget", "timeline", "priority", "contact"}

\* C16: a session has gone through every stage and holds all five answers.
C16_Witness ==
    \E c \in Chats :
        /\ Idle(c)
        /\ Stage(c) = "done"
        /\ DOMAIN Answers(c) = {"intent", "budget", "timeline", "priority", "contact"}
        /\ Suggestion(c) = RecText

\* C17: while the stage is offering and the recommendation of this visit is
\* already stored, a further message of the chat makes no Gateway request
\* and leaves last_llm_suggestion as it is.
C17_OncePerVisit ==
    [][\A c \in Chats :
         (Stage(c) = "offering" /\ Suggestion(c) # <<>>) =>
            \A text \in Texts, o \in Outcomes(TRUE, FALSE) :
               MessageStep(c, text, o)
                  => /\ handle_any_message(World, c, text, o).llm = "none"
                     /\ Suggestion(c)' = Suggestion(c)
      ]_vars

\* C18: handle_any_message ignores a message whose text is empty, blank or
\* missing: it returns without raising, sends no reply, and leaves the
\* sessions as they are, creating none.
C18_EmptyIgnored ==
    \A c \in Chats, text \in {TxtEmpty, TxtBlank, NoText},
       o \in Outcomes(FALSE, FALSE) :
        LET s == handle_any_message(World, c, text, o)
        IN  /\ s.pc = "returned"
            /\ s.reply = "none"
            /\ s.ds = dialog_states

\* The awaits of handle_ping and handle_ask.
PingAskAwaits == {"ping_154", "ask_180", "ask_186", "ask_191", "ask_195"}

\* C20: /ping and /ask, in whatever stage the chat is and with or without a
\* session, leave dialog_states as it is, at the command and at each of
\* their replies; /ping sends pong; /ask does what it does for a chat
\* without any session: it asks the Gateway and sends the answer, and sends
\* the fallback text when the client cannot be built.
C20_PingAskIndependent ==
    [][\A c \in Chats :
         LET Blank == [World EXCEPT !.ds = EmptyMap]
         IN  /\ PingStep(c)
                  => /\ dialog_states' = dialog_states
                     /\ \E h \in BagToSet(inflight[c]') :
                           h.pc = "ping_154" /\ h.reply = "pong"
             /\ \A question \in {TxtBlank, TxtFree} :
                  /\ AskStep(c, question) => dialog_states' = dialog_states
                  /\ SameFor(c, handle_ask(World, c, question),
                                [handle_ask(Blank, c, question)
                                    EXCEPT !.ds = dialog_states])
             /\ \A o \in Outcomes(TRUE, FALSE) :
                  /\ SameFor(c, handle_ask_try(World, c, o),
                                [handle_ask_try(Blank, c, o)
                                    EXCEPT !.ds = dialog_states])
                  /\ LET s == handle_ask_try(World, c, o)
                     IN  IF get_llm_client(llm_client, environ, o.ctor).raised
                         THEN s.pc = "ask_195" /\ s.reply = "fallback"
                         ELSE s.pc = "ask_191" /\ s.llm = o.completion
                  /\ \A h \in BagToSet(inflight[c]), send \in {"ok", "raise"} :
                       (h.pc \in PingAskAwaits /\ ResumeStep(c, h, send, o))
                           => dialog_states' = dialog_states
      ]_vars

\* C20: /ask came while the chat was asked for its contact; the Gateway was
\* asked, the answer is on its way and the session is as it was.
C20_Witness ==
    \E c \in Chats :
        /\ Suspended(c, {"ask_191"})
        /\ Stage(c) = "collecting_contact"
        /\ DOMAIN Answers(c) = {"intent", "budget", "timeline", "priority"}

\* C21: nothing is tried again.  The segment in which a handler takes up a
\* message makes at most one completion call and at most one append to the
\* CSV file, exactly one call when the call it made failed; a command makes
\* none before its first reply; a handler that goes on after an await makes
\* no append and no completion call, but for /ask, which makes its one call
\* after its first reply (line 186) and never comes back to that line.
C21_NoRetry ==
    \A c \in Chats :
        /\ \A text \in Texts \cup {NoText},
              o \in Outcomes(MayReachGateway(c), MayReachSink(c)) :
             LET s == handle_any_message(World, c, text, o)
             IN  /\ s.asks <= 1
                 /\ s.appends <= 1
                 /\ s.llm \in {"raise", "no_choices", "content_none"}
                       => s.asks = 1
        /\ \A s \in {handle_start(World, c), handle_reset(World, c),
                     handle_ping(World, c), handle_ask(World, c, TxtBlank),
                     handle_ask(World, c, TxtFree)} :
             s.asks = 0 /\ s.appends = 0
        /\ \A h \in BagToSet(inflight[c]), send \in {"ok", "raise"},
              o \in Outcomes(TRUE, FALSE) :
             LET s == resume(World, c, h.pc, send, o)
             IN  /\ s.appends = 0
                 /\ s.asks <= (IF h.pc = "ask_186" /\ send = "ok" THEN 1 ELSE 0)
                 /\ s.pc # "ask_186"
                 /\ (h.pc = "ask_186" /\ s.llm = "raise") => s.asks = 1

\* C21: the completion call of the fourth answer failed; the handler made
\* that one call, stored the fallback text and is presenting it.
C21_Witness ==
    \E c \in Chats :
        /\ SuspendedVia(c, {"offer_343"}, "qual_303")
        /\ Stage(c) = "offering"
        /\ Suggestion(c) = FALLBACK_MESSAGE
        /\ llm_client = "LLMClient"

\* C22: whichever handlers of a chat interleave, a session whose stage is
\* offering or collecting_contact holds the four answers intent, budget,
\* timeline and priority.
C22_OfferHasAnswers ==
    \A c \in DOMAIN dialog_states :
        dialog_states[c].stage \in {"offering", "collecting_contact"}
            => {"intent", "budget", "timeline", "priority"}
                  \subseteq DOMAIN dialog_states[c].answers

\* C23: whichever handlers of a chat interleave, a session in stage
\* qualifying lacks one of intent, budget, timeline, priority, and a
\* non-empty message handled in that stage sends a reply and changes
\* the session.
C23_QualifyingProgresses ==
    \A c \in Chats :
        Stage(c) = "qualifying" =>
            /\ \E i \in 1..Len(QuestionKeys) : QuestionKeys[i] \notin DOMAIN Answers(c)
            /\ \A text \in {t \in Texts : strip(t) # <<>>},
                  o \in Outcomes(MayReachGateway(c), FALSE) :
                 LET s == handle_any_message(World, c, text, o)
                 IN  /\ s.reply # "none"
                     /\ s.pc \notin Ended
                     /\ s.ds # dialog_states

\* C24: handle_offering_stage treats whatever ask_question returned, a
\* recommendation or the fallback text, alike: it stores the text unchanged
\* in last_llm_suggestion and sends it inside the recommendation message,
\* so after a failed completion call last_llm_suggestion is the fallback
\* text; the handler leaves last_llm_suggestion as it was only when
\* get_llm_client raised; and what it does after its sends, delivered or
\* raised, leaves last_llm_suggestion as it is.
C24_FallbackIsRecommendation ==
    \A c \in Chats :
        /\ \A completion \in Completions :
              /\ ask_question(completion).text # <<>>
              /\ completion \in {"raise", "no_choices", "content_none"}
                    => ask_question(completion).text = FALLBACK_MESSAGE
        /\ MayReachGateway(c) =>
              \A text \in {t \in Texts : strip(t) # <<>>},
                 o \in Outcomes(TRUE, FALSE) :
                 LET s == handle_any_message(World, c, text, o)
                     g == get_llm_client(llm_client, environ, o.ctor)
                     returned == ask_question(o.completion).text
                     stored == s.ds[c].last_llm_suggestion
                 IN  /\ s.pc \in {"offer_343", "offer_349"}
                     /\ ~g.raised =>
                           /\ s.asks = 1
                           /\ stored = returned
                           /\ s.pc = "offer_343"
                           /\ s.reply = "recommendation"
                           /\ s.body = response(returned)
                     /\ g.raised =>
                           /\ s.asks = 0
                           /\ stored = Suggestion(c)
                           /\ s.pc = "offer_349"
                           /\ s.body = <<>>
        /\ Suspended(c, {"offer_343"}) => Suggestion(c) # <<>>
        /\ \A h \in BagToSet(inflight[c]), send \in {"ok", "raise"},
              o \in Outcomes(FALSE, FALSE) :
              h.pc \in {"offer_343", "offer_349"} =>
                 LET s == resume(World, c, h.pc, send, o)
                 IN  /\ s.ds[c].last_llm_suggestion = Suggestion(c)
                     /\ s.asks = 0

\* C24: the completion call failed, the fallback text is stored as the
\* recommendation, the send of the recommendation message raised, and the
\* handler is sending the fallback reply.
C24_Witness ==
    \E c \in Chats :
        /\ Suspended(c, {"offer_349"})
        /\ Stage(c) = "offering"
        /\ Suggestion(c) = FALLBACK_MESSAGE

====
